---------------------------- MODULE Spec2Model ----------------------------
(***************************************************************************)
(* A model of dslf (src/main.rs): the loader of the redirect table         *)
(* (load_redirect_rules), the status translation                           *)
(* (create_redirect_response), the resolver (handle_redirect) and the      *)
(* application built by create_app, with and without a static directory,   *)
(* the modes of main, validate_destinations, and the importer of           *)
(* src/import.rs.                                                          *)
(*                                                                         *)
(* Text is a sequence of characters, each a string of length one; a few    *)
(* longer strings ("url", "T1", "%61") stand for a run of ordinary         *)
(* characters that holds no delimiter, quote, '#', whitespace, '/' or line *)
(* break, so the reader and the resolver treat them as one character.      *)
(***************************************************************************)
EXTENDS Integers, Sequences, FiniteSets, TLC

VARIABLES
    file_content,   \* the lines of the configuration file, as str::lines yields them
    cli,            \* the parsed command line: [modern, static_dir, ..]
    pc,             \* where main is: "main", "importing", "validating",
                    \* "serving", "exited", "panicked"
    loaded,         \* the value load_redirect_rules returned, NotLoaded before
    rules,          \* the table handed to create_app (empty until then)
    request,        \* the request last handled, NoRequest before the first
    response,       \* the response to it
    trace,          \* what handling it did: the lookups and the static service's call
    handlers,       \* the requests being handled concurrently, one per task
    validation,     \* the state of validate_destinations
    exit,           \* how the process ended, NoExit while it runs
    importer        \* the state of import_from_rebrandly

vars == <<file_content, cli, pc, loaded, rules, request, response, trace,
          handlers, validation, exit, importer>>

---------------------------------------------------------------------------
(* Bounds of the model *)

\* the number of lines after the header row
MaxLines == 3
\* the number of requests handled at the same time
MaxHandlers == 2

---------------------------------------------------------------------------
(* Characters and strings *)

NL == "\n"
Whitespace == {" ", "\t"}

\* all sequences over S of length 0..n
SeqsUpTo(S, n) == UNION {[1..k -> S] : k \in 0..n}

\* char::is_whitespace as str::trim uses it
is_whitespace(c) == c \in Whitespace

RECURSIVE trim_start(_)
trim_start(s) ==
    IF s # <<>> /\ is_whitespace(Head(s)) THEN trim_start(Tail(s)) ELSE s

RECURSIVE trim_end(_)
trim_end(s) ==
    IF s # <<>> /\ is_whitespace(s[Len(s)])
    THEN trim_end(SubSeq(s, 1, Len(s) - 1))
    ELSE s

\* str::trim
trim(s) == trim_end(trim_start(s))

\* a trimming that removes one trailing c only
trim_end_matches_once(s, c) ==
    IF s # <<>> /\ s[Len(s)] = c THEN SubSeq(s, 1, Len(s) - 1) ELSE s

\* str::trim_end_matches(c)
RECURSIVE trim_end_matches(_, _)
trim_end_matches(s, c) ==
    IF s # <<>> /\ s[Len(s)] = c
    THEN trim_end_matches(SubSeq(s, 1, Len(s) - 1), c)
    ELSE s

---------------------------------------------------------------------------
(* load_redirect_rules: the blank-line filter *)

\* a filter that keeps every line
keep_line_all(line) == TRUE

\* the closure of the filter: keep the lines that are not blank
keep_line(line) == trim(line) # <<>>

\* .lines().filter(..).map(|line| format!("{line}\n")).collect()
RECURSIVE filtered_content(_)
filtered_content(lines) ==
    IF lines = <<>> THEN <<>>
    ELSE IF keep_line(Head(lines))
         THEN Head(lines) \o <<NL>> \o filtered_content(Tail(lines))
         ELSE filtered_content(Tail(lines))

---------------------------------------------------------------------------
(* The csv reader built at main.rs:376-378: delimiter ',', quote '"' with   *)
(* doubling, comment '#', any line terminator, headers, fixed record length *)

Delimiter == ","
Quote == "\""
\* a reader whose comment character is another one
CommentByteSemicolon == ";"

\* ReaderBuilder::comment(Some(b'#'))
CommentByte == "#"

\* One step of the reader's automaton on character c.  st is the state, fld
\* the field being read, rec the fields of the record being read, out the
\* records read so far.
csv_step(st, c, fld, rec, out) ==
    LET go(s, f, r, o) == [st |-> s, fld |-> f, rec |-> r, out |-> o]
        \* the character ends the field, or the record, or belongs to the field
        in_field ==
            IF c = Delimiter THEN go("StartField", <<>>, Append(rec, fld), out)
            ELSE IF c = NL
            THEN go("StartRecord", <<>>, <<>>, Append(out, Append(rec, fld)))
            ELSE go("InField", Append(fld, c), rec, out)
        start_field ==
            IF c = Quote THEN go("InQuotedField", <<>>, rec, out) ELSE in_field
    IN  IF st = "StartRecord"
        THEN IF c = NL THEN go("StartRecord", <<>>, <<>>, out)
             ELSE IF c = CommentByte THEN go("InComment", <<>>, <<>>, out)
             ELSE start_field
        ELSE IF st = "InComment"
        THEN go(IF c = NL THEN "StartRecord" ELSE "InComment", <<>>, <<>>, out)
        ELSE IF st = "StartField" THEN start_field
        ELSE IF st = "InQuotedField"
        THEN IF c = Quote THEN go("InDoubleEscapedQuote", fld, rec, out)
             ELSE go("InQuotedField", Append(fld, c), rec, out)
        ELSE IF st = "InDoubleEscapedQuote" /\ c = Quote
        THEN go("InQuotedField", Append(fld, c), rec, out)
        ELSE in_field

\* the states of the reader's automaton
ReaderStates ==
    {"StartRecord", "InComment", "StartField", "InField", "InQuotedField",
     "InDoubleEscapedQuote"}

\* the automaton run over input[i..j], from the state n: over the first half
\* of the characters, then over the second half from the state reached
RECURSIVE csv_run(_, _, _, _)
csv_run(input, i, j, n) ==
    IF i > j THEN n
    ELSE IF i = j THEN csv_step(n.st, input[i], n.fld, n.rec, n.out)
    ELSE LET mid == (i + j) \div 2
             reached == csv_run(input, i, mid, n)
         IN  IF reached.st \in ReaderStates
             THEN csv_run(input, mid + 1, j, reached)
             ELSE reached

\* the state of the reader after the whole input
csv_scan(input) ==
    csv_run(input, 1, Len(input),
            [st |-> "StartRecord", fld |-> <<>>, rec |-> <<>>, out |-> <<>>])

\* the records of the input, the header row first; at the end of the input a
\* record under way is completed
csv_records(input) ==
    LET n == csv_scan(input)
    IN  IF n.st \in {"StartRecord", "InComment"} THEN n.out
        ELSE Append(n.out, Append(n.rec, n.fld))

---------------------------------------------------------------------------
(* Deserializing a record into a RedirectRule *)

Digits == <<"0", "1", "2", "3", "4", "5", "6", "7", "8", "9">>
IsDigit(c) == \E d \in 1..10 : Digits[d] = c
DigitVal(c) == (CHOOSE d \in 1..10 : Digits[d] = c) - 1

U16Max == 65535

\* the digits of u16::from_str, most significant first, with the overflow check
RECURSIVE parse_digits(_, _)
parse_digits(s, acc) ==
    IF s = <<>> THEN [ok |-> TRUE, value |-> acc]
    ELSE IF ~IsDigit(Head(s)) THEN [ok |-> FALSE]
    ELSE LET v == acc * 10 + DigitVal(Head(s))
         IN  IF v > U16Max THEN [ok |-> FALSE] ELSE parse_digits(Tail(s), v)

\* str::parse::<u16>: an optional '+', then at least one digit
parse_u16(s) ==
    LET d == IF s # <<>> /\ Head(s) = "+" THEN Tail(s) ELSE s
    IN  IF d = <<>> THEN [ok |-> FALSE] ELSE parse_digits(d, 0)

\* a binding of the columns by their position: url, target, status
columns_by_position(headers, name) ==
    {CASE name = "url" -> 1 [] name = "target" -> 2 [] OTHER -> 3}

\* the positions of the header row that name the column
columns(headers, name) == {i \in 1..Len(headers) : headers[i] = <<name>>}

\* #[derive(Deserialize)] struct RedirectRule { url, target, status: u16 },
\* the fields bound by header name
deserialize(headers, record) ==
    LET u == columns(headers, "url")
        t == columns(headers, "target")
        s == columns(headers, "status")
        one(S) == CHOOSE i \in S : TRUE
    IN  IF Cardinality(u) # 1 \/ Cardinality(t) # 1 \/ Cardinality(s) # 1
        THEN [ok |-> FALSE, error |-> <<"CSV deserialize error">>]
        ELSE IF ~parse_u16(record[one(s)]).ok
        THEN [ok |-> FALSE, error |-> <<"CSV deserialize error">>]
        ELSE [ok |-> TRUE,
              rule |-> [url |-> record[one(u)],
                        target |-> record[one(t)],
                        status |-> parse_u16(record[one(s)]).value]]

\* one item of reader.deserialize(): the record length check, then serde
next_rule(headers, record) ==
    IF Len(record) # Len(headers)
    THEN [ok |-> FALSE, error |-> <<"CSV error: unequal lengths">>]
    ELSE deserialize(headers, record)

---------------------------------------------------------------------------
(* load_redirect_rules: the loop over the rows *)

EmptyTable == <<>>

\* an insertion that keeps the entry a key already has
insert_keep_first(table, rule) ==
    [k \in DOMAIN table \cup {rule.url} |->
        IF k \in DOMAIN table THEN table[k]
        ELSE [target |-> rule.target, status |-> rule.status]]

\* an insertion that trims the key and the destination
insert_trimmed(table, rule) ==
    [k \in DOMAIN table \cup {trim(rule.url)} |->
        IF k = trim(rule.url)
        THEN [target |-> trim(rule.target), status |-> rule.status]
        ELSE table[k]]

\* rules.insert(rule.url, (rule.target, rule.status))
insert(table, rule) ==
    [k \in DOMAIN table \cup {rule.url} |->
        IF k = rule.url THEN [target |-> rule.target, status |-> rule.status]
        ELSE table[k]]

\* a validation that lets every redirection status through
valid_status_any_3xx(status) == status >= 300 /\ status < 400

\* the validation of the status code
valid_status(status) == status = 301 \/ status = 302

\* the Display of a u16: its decimal digits
RECURSIVE to_string(_)
to_string(n) ==
    IF n < 10 THEN <<Digits[n + 1]>>
    ELSE Append(to_string(n \div 10), Digits[(n % 10) + 1])

\* format!("Invalid status code: {status}. Must be 301 or 302")
invalid_status_message(status) ==
    <<"Invalid status code: ">> \o to_string(status) \o <<". Must be 301 or 302">>

\* a loop that stops at the row that fails and returns the rows before it
row_failed_partial(table, error) == [ok |-> TRUE, rules |-> table]

\* what the loop does when a row fails: `?` and `return Err` leave the function
row_failed(table, error) == [ok |-> FALSE, error |-> error]

RECURSIVE load_rows(_, _, _, _)
load_rows(headers, records, i, table) ==
    IF i > Len(records) THEN [ok |-> TRUE, rules |-> table]
    ELSE LET r == next_rule(headers, records[i])
         IN  IF ~r.ok THEN row_failed(table, r.error)
             ELSE IF ~valid_status(r.rule.status)
             THEN row_failed(table, invalid_status_message(r.rule.status))
             ELSE load_rows(headers, records, i + 1, insert(table, r.rule))

\* a loader whose table depends on the command line as well: with a static
\* directory it leaves the rows of the file out
load_redirect_rules_by_options(lines) ==
    LET records == csv_records(filtered_content(lines))
    IN  IF records = <<>> \/ cli.static_dir THEN [ok |-> TRUE, rules |-> EmptyTable]
        ELSE load_rows(records[1], records, 2, EmptyTable)

\* load_redirect_rules, from the lines of the file on
load_redirect_rules(lines) ==
    LET records == csv_records(filtered_content(lines))
    IN  IF records = <<>> THEN [ok |-> TRUE, rules |-> EmptyTable]
        ELSE load_rows(records[1], records, 2, EmptyTable)

---------------------------------------------------------------------------
(* create_redirect_response *)

MOVED_PERMANENTLY == 301
FOUND == 302
TEMPORARY_REDIRECT == 307
PERMANENT_REDIRECT == 308
NOT_FOUND == 404
METHOD_NOT_ALLOWED == 405
INTERNAL_SERVER_ERROR == 500
BAD_REQUEST == 400
OK == 200

\* a response of the server: the status line, the headers and the body
Response(status, headers, body) ==
    [panicked |-> FALSE, status |-> status, headers |-> headers, body |-> body]

\* a panic of the code that builds the response: the request gets no response
Panic == [panicked |-> TRUE]

\* StatusCode::into_response: the status with an empty body
status_response(code) == Response(code, {}, <<>>)

\* the bytes http::HeaderValue refuses: the control characters but the tab
header_value_valid(value) == \A i \in 1..Len(value) : value[i] # NL

\* a translation that sends a stored status other than 301 and 302 as it is
actual_status_as_stored(status, modern) ==
    IF status = 301 /\ ~modern THEN [ok |-> TRUE, code |-> MOVED_PERMANENTLY]
    ELSE IF status = 301 /\ modern THEN [ok |-> TRUE, code |-> PERMANENT_REDIRECT]
    ELSE IF status = 302 /\ ~modern THEN [ok |-> TRUE, code |-> FOUND]
    ELSE IF status = 302 /\ modern THEN [ok |-> TRUE, code |-> TEMPORARY_REDIRECT]
    ELSE [ok |-> TRUE, code |-> status]

\* match (status, modern): the wire status, or Err(INTERNAL_SERVER_ERROR)
actual_status(status, modern) ==
    IF status = 301 /\ ~modern THEN [ok |-> TRUE, code |-> MOVED_PERMANENTLY]
    ELSE IF status = 301 /\ modern THEN [ok |-> TRUE, code |-> PERMANENT_REDIRECT]
    ELSE IF status = 302 /\ ~modern THEN [ok |-> TRUE, code |-> FOUND]
    ELSE IF status = 302 /\ modern THEN [ok |-> TRUE, code |-> TEMPORARY_REDIRECT]
    ELSE [ok |-> FALSE, code |-> INTERNAL_SERVER_ERROR]

\* Response::builder().status(..).header(LOCATION, target).body(..).unwrap():
\* the builder fails on a value that is no header value, and unwrap panics
build_redirect(code, target) ==
    IF header_value_valid(target)
    THEN Response(code, {[name |-> "location", value |-> target]}, <<>>)
    ELSE Panic

\* create_redirect_response -> Result<Response, StatusCode>
create_redirect_response(target, status, modern) ==
    LET a == actual_status(status, modern)
    IN  IF a.ok THEN [ok |-> TRUE, response |-> build_redirect(a.code, target)]
        ELSE [ok |-> FALSE, code |-> a.code]

\* Result<Response, StatusCode>::into_response, and e.into_response() of the
\* static branch: the response, or the status with an empty body
into_response(result) ==
    IF result.ok THEN result.response ELSE status_response(result.code)

---------------------------------------------------------------------------
(* handle_redirect: the resolver of the application without static files *)

\* What handling a request did.  lookups: the keys looked up in the table, in
\* order; matched: the key whose rule was used, if any; static_req: the
\* request handed to the static-file service, if any; static_res: what that
\* service returned, if it was called (the last three as sequences of length
\* 0 or 1).
Handled(resp, lookups, matched, static_req, static_res) ==
    [response |-> resp,
     trace |-> [lookups |-> lookups, matched |-> matched,
                static_req |-> static_req, static_res |-> static_res]]

\* a resolver that tries the path without its trailing slashes first
handle_redirect_trimmed_first(path, table, modern) ==
    LET request_path == <<"/">> \o path
        trimmed_path == trim_end_matches(request_path, "/")
        redirect(key) ==
            into_response(
                create_redirect_response(table[key].target, table[key].status, modern))
    IN  IF trimmed_path \in DOMAIN table
        THEN Handled(redirect(trimmed_path), <<trimmed_path>>, <<trimmed_path>>,
                     <<>>, <<>>)
        ELSE IF request_path \in DOMAIN table
        THEN Handled(redirect(request_path), <<trimmed_path, request_path>>,
                     <<request_path>>, <<>>, <<>>)
        ELSE Handled(status_response(NOT_FOUND), <<trimmed_path, request_path>>,
                     <<>>, <<>>, <<>>)

\* a resolver whose miss is an internal error
handle_redirect_miss_is_error(path, table, modern) ==
    LET request_path == <<"/">> \o path
        trimmed_path == trim_end_matches(request_path, "/")
        redirect(key) ==
            into_response(
                create_redirect_response(table[key].target, table[key].status, modern))
    IN  IF request_path \in DOMAIN table
        THEN Handled(redirect(request_path), <<request_path>>, <<request_path>>,
                     <<>>, <<>>)
        ELSE IF trimmed_path \in DOMAIN table
        THEN Handled(redirect(trimmed_path), <<request_path, trimmed_path>>,
                     <<trimmed_path>>, <<>>, <<>>)
        ELSE Handled(status_response(INTERNAL_SERVER_ERROR),
                     <<request_path, trimmed_path>>, <<>>, <<>>, <<>>)

handle_redirect(path, table, modern) ==
    LET request_path == <<"/">> \o path
        trimmed_path == trim_end_matches(request_path, "/")
        redirect(key) ==
            into_response(
                create_redirect_response(table[key].target, table[key].status, modern))
    IN  IF request_path \in DOMAIN table
        THEN Handled(redirect(request_path), <<request_path>>, <<request_path>>, <<>>, <<>>)
        ELSE IF trimmed_path \in DOMAIN table
        THEN Handled(redirect(trimmed_path), <<request_path, trimmed_path>>,
                     <<trimmed_path>>, <<>>, <<>>)
        ELSE Handled(status_response(NOT_FOUND), <<request_path, trimmed_path>>,
                     <<>>, <<>>, <<>>)

---------------------------------------------------------------------------
(* create_app without a static directory:                                  *)
(* Router::new().route("/{*path}", get(handle_redirect))                   *)

\* the percent-decoding of the Path extractor: "%61" is the letter a, and
\* "%FF" is a byte that is not UTF-8, which the extractor rejects
percent_decode_char(c) == IF c = "%61" THEN "a" ELSE c
percent_decode(s) ==
    IF \E i \in 1..Len(s) : s[i] = "%FF" THEN [ok |-> FALSE]
    ELSE [ok |-> TRUE, value |-> [i \in 1..Len(s) |-> percent_decode_char(s[i])]]

\* "/{*path}" matches a path with at least one character after the first '/'
route_matches(uri_path) == Len(uri_path) >= 2
\* a capture that keeps the '/' of the route
captured_path_whole(uri_path) == uri_path
\* the part of the path the wildcard captures
captured_path(uri_path) == Tail(uri_path)
\* get(..) serves GET and HEAD
method_routed(method) == method \in {"GET", "HEAD"}

\* the rejection of the Path extractor
path_rejection == Response(BAD_REQUEST, {}, <<"Invalid URL">>)

redirect_only_app(req, table, modern) ==
    LET path == percent_decode(captured_path(req.path))
    IN  IF ~route_matches(req.path)
        THEN Handled(status_response(NOT_FOUND), <<>>, <<>>, <<>>, <<>>)
        ELSE IF ~method_routed(req.method)
        THEN Handled(Response(METHOD_NOT_ALLOWED,
                              {[name |-> "allow", value |-> <<"GET,HEAD">>]}, <<>>),
                     <<>>, <<>>, <<>>, <<>>)
        ELSE IF ~path.ok
        THEN Handled(path_rejection, <<>>, <<>>, <<>>, <<>>)
        ELSE handle_redirect(path.value, table, modern)

---------------------------------------------------------------------------
(* create_app with a static directory: the redirects first, then ServeDir  *)

\* What ServeDir does with a request, as the file system and the request
\* decide when it is served:
\*   "file"               a file is found at the path and served
\*   "custom_404"         no file is found, and 404.html can be read
\*   "plain_404"          no file is found, and 404.html cannot be read
\*   "method_not_allowed" the method is neither GET nor HEAD
\*   "error"              reading the file system fails
StaticOutcomes(method) ==
    IF method \in {"GET", "HEAD"} THEN {"file", "custom_404", "plain_404", "error"}
    ELSE {"method_not_allowed", "error"}

FileBody == <<"(the file)">>
NotFoundHtml == <<"(the content of 404.html)">>

\* the service given to not_found_service
not_found_service(fs) ==
    IF fs = "custom_404"
    THEN Response(NOT_FOUND,
                  {[name |-> "content-type", value |-> <<"text/html; charset=utf-8">>]},
                  NotFoundHtml)
    ELSE Response(NOT_FOUND, {}, <<"Not Found">>)

\* ServeDir::new(dir).append_index_html_on_directories(true)
\*     .not_found_service(..), called once on a request
\* (its error type is Infallible: a failure of the file system is a response)
serve_dir(req, fs) ==
    IF fs = "error"
    THEN [ok |-> TRUE, response |-> status_response(INTERNAL_SERVER_ERROR)]
    ELSE IF fs = "method_not_allowed"
    THEN [ok |-> TRUE, response |-> status_response(METHOD_NOT_ALLOWED)]
    ELSE IF fs = "file"
    THEN [ok |-> TRUE, response |-> Response(OK, {}, FileBody)]
    ELSE [ok |-> TRUE, response |-> not_found_service(fs)]

\* match serve_dir.oneshot(req).await { Ok(res) => .., Err(err) => .. }
static_fallback(res) ==
    IF res.ok THEN res.response ELSE status_response(INTERNAL_SERVER_ERROR)

\* a fallback that hands on the request with the trailing slashes removed
static_request_trimmed(req) == [req EXCEPT !.path = trim_end_matches(req.path, "/")]

\* the request the fallback hands to the static-file service
static_request(req) == req

\* the service given to fallback_service
static_app(req, fs, table, modern) ==
    LET path == req.path
        redirect_if_matches(lookup_path) ==
            into_response(
                create_redirect_response(table[lookup_path].target,
                                         table[lookup_path].status, modern))
        trimmed == trim_end_matches(path, "/")
    IN  IF path \in DOMAIN table
        THEN Handled(redirect_if_matches(path), <<path>>, <<path>>, <<>>, <<>>)
        ELSE IF trimmed # path /\ trimmed \in DOMAIN table
        THEN Handled(redirect_if_matches(trimmed), <<path, trimmed>>, <<trimmed>>,
                     <<>>, <<>>)
        ELSE Handled(static_fallback(serve_dir(static_request(req), fs)),
                     IF trimmed # path THEN <<path, trimmed>> ELSE <<path>>,
                     <<>>, <<static_request(req)>>,
                     <<serve_dir(static_request(req), fs).response>>)

---------------------------------------------------------------------------
(* The inputs: configuration files and requests *)

Row(url, target, status) == url \o <<Delimiter>> \o target \o <<Delimiter>> \o status

HeaderLine == <<"url", Delimiter, "target", Delimiter, "status">>

\* rows that load
RowA301 == Row(<<"/", "a">>, <<"T1">>, <<"3", "0", "1">>)
RowA302 == Row(<<"/", "a">>, <<"T2">>, <<"3", "0", "2">>)
RowASlash302 == Row(<<"/", "a", "/">>, <<"T2">>, <<"3", "0", "2">>)
RowRoot302 == Row(<<"/">>, <<"T2">>, <<"3", "0", "2">>)
\* rows whose url is empty, and is whitespace only
RowEmptyUrl == Row(<<>>, <<"T1">>, <<"3", "0", "1">>)
RowBlankUrl == Row(<<" ">>, <<"T2">>, <<"3", "0", "2">>)
\* a row whose url and target have whitespace around them, and a capital
RowSpaced == Row(<<" ", "/", "A", " ">>, <<" ", "T1", " ">>, <<"3", "0", "1">>)
\* a row whose status is a number other than 301 and 302
RowA303 == Row(<<"/", "a">>, <<"T1">>, <<"3", "0", "3">>)
\* rows that do not parse
RowShort == <<"/", "a", Delimiter, "T1">>
RowNotNumber == Row(<<"/", "a">>, <<"T1">>, <<"x">>)
RowNegative == Row(<<"/", "a">>, <<"T1">>, <<"-", "1">>)
RowTooBig == Row(<<"/", "a">>, <<"T1">>, <<"6", "5", "5", "3", "6">>)
\* the two lines of a row whose quoted target spans lines
LineQuoteOpens == <<"/", "b", Delimiter, Quote, "T1">>
LineQuoteCloses == <<"T2", Quote, Delimiter, "3", "0", "1">>
\* lines the loader ignores
LineEmpty == <<>>
LineBlank == <<" ", "\t">>
LineComment == <<"#", "c">>
\* lines whose first character is whitespace and whose second is '#'
LineIndentedComment == <<" ", "#", "c">>
RowIndentedHash == Row(<<" ", "#", "a">>, <<"T1">>, <<"3", "0", "1">>)

IgnoredLines == {LineEmpty, LineBlank, LineComment}

\* the rows of the files whose loading is checked
LoadLines ==
    {RowA301, RowA302, RowA303, RowShort, RowNotNumber, RowNegative, RowTooBig,
     RowEmptyUrl, RowBlankUrl}

\* the lines of the files that hold ignored lines and quoted fields
CommentedLines ==
    {RowA301, RowA302, LineQuoteOpens, LineQuoteCloses,
     LineIndentedComment, RowIndentedHash} \cup IgnoredLines

\* the lines of the files the served tables are loaded from
ServeLines ==
    {RowA301, RowASlash302, RowRoot302, RowSpaced, LineQuoteOpens, LineQuoteCloses}

\* a file: at most one ignored line, the header row, at most MaxLines lines
Files(lines, before) ==
    {b \o <<HeaderLine>> \o f : b \in before, f \in SeqsUpTo(lines, MaxLines)}

Methods == {"GET", "POST"}

\* the paths of the requests handled at the same time
ConcurrentPaths == {<<"/", "a">>, <<"/", "a", "/">>, <<"/", "b">>}

\* the paths of the requests, as Uri::path gives them
RequestPaths ==
    {<<"/">>, <<"/", "a">>, <<"/", "a", "/">>, <<"/", "a", "/", "/">>,
     <<"/", "b">>, <<"/", "/">>, <<"/", "%61">>, <<"/", "%FF">>}

---------------------------------------------------------------------------
(* The program: main loads the table, builds the application and serves *)

NotLoaded == [ok |-> FALSE, error |-> <<"(load_redirect_rules has not returned)">>]
NoRequest == [method |-> "(none)", path |-> <<>>, fs |-> "(none)"]
NoResponse == [panicked |-> FALSE, status |-> 0, headers |-> {}, body |-> <<>>]
NoTrace == [lookups |-> <<>>, matched |-> <<>>, static_req |-> <<>>, static_res |-> <<>>]
\* a task that handles no request
Idle == [stage |-> "idle"]
\* validate_destinations has not been called
NotValidated == [stage |-> "not called"]
\* the process runs
NoExit == [exited |-> FALSE]
\* the process has ended with the exit code
Exit(code) == [exited |-> TRUE, code |-> code]
\* the exit code of a Rust process whose main thread panicked
PANIC_EXIT_CODE == 101
\* the exit code of a return from main, and of std::process::exit(1)
EXIT_SUCCESS == 0
EXIT_FAILURE == 1
\* import_from_rebrandly has not been called
NotImporting == [stage |-> "not called"]

InitWith(files, options) ==
    /\ file_content \in files
    /\ cli \in options
    /\ pc = "main"
    /\ loaded = NotLoaded
    /\ rules = EmptyTable
    /\ request = NoRequest
    /\ response = NoResponse
    /\ trace = NoTrace
    /\ handlers = [h \in 1..MaxHandlers |-> Idle]
    /\ validation = NotValidated
    /\ exit = NoExit
    /\ importer = NotImporting

\* let rules = load_redirect_rules(&cli.config).expect(..), then create_app
LoadOk ==
    /\ pc = "main"
    /\ cli.import = "(none)" /\ ~cli.check /\ ~cli.validate
    /\ LET r == load_redirect_rules(file_content)
       IN  /\ r.ok
           /\ loaded' = r
           /\ rules' = r.rules
    /\ pc' = "serving"
    /\ UNCHANGED <<file_content, cli, request, response, trace>>
    /\ UNCHANGED <<handlers, validation, exit, importer>>

\* the expect of a failed load panics
LoadFailed ==
    /\ pc = "main"
    /\ cli.import = "(none)"
    /\ LET r == load_redirect_rules(file_content)
       IN  /\ ~r.ok
           /\ loaded' = r
    /\ pc' = "panicked"
    /\ exit' = Exit(PANIC_EXIT_CODE)
    /\ UNCHANGED <<file_content, cli, rules, request, response, trace>>
    /\ UNCHANGED <<handlers, validation, importer>>

\* a request to the application built without a static directory
ServeRedirects ==
    /\ pc = "serving"
    /\ ~cli.static_dir
    /\ \E m \in Methods, p \in RequestPaths :
         LET req == [method |-> m, path |-> p]
             h == redirect_only_app(req, rules, cli.modern)
         IN  /\ request' = [method |-> m, path |-> p, fs |-> "(none)"]
             /\ response' = h.response
             /\ trace' = h.trace
    /\ UNCHANGED <<file_content, cli, pc, loaded, rules>>
    /\ UNCHANGED <<handlers, validation, exit, importer>>

\* a request to the application built with a static directory
ServeStatic ==
    /\ pc = "serving"
    /\ cli.static_dir
    /\ \E m \in Methods, p \in RequestPaths :
       \E fs \in StaticOutcomes(m) :
         LET req == [method |-> m, path |-> p]
             h == static_app(req, fs, rules, cli.modern)
         IN  /\ request' = [method |-> m, path |-> p, fs |-> fs]
             /\ response' = h.response
             /\ trace' = h.trace
    /\ UNCHANGED <<file_content, cli, pc, loaded, rules>>
    /\ UNCHANGED <<handlers, validation, exit, importer>>

\* let rules = rules.clone(): the copy of the table a request is handled with
clone_table_empty(table) == EmptyTable
clone_table(table) == table

\* a request arrives while the server listens: a task takes it, with its
\* copy of the table
Accept(h) ==
    /\ pc = "serving"
    /\ handlers[h].stage = "idle"
    /\ \E m \in Methods, p \in ConcurrentPaths :
         handlers' = [handlers EXCEPT ![h] =
                         [stage |-> "accepted",
                          request |-> [method |-> m, path |-> p],
                          table |-> clone_table(rules)]]
    /\ UNCHANGED <<file_content, cli, pc, loaded, rules, request, response, trace>>
    /\ UNCHANGED <<validation, exit, importer>>

\* the task resolves its request and builds the response
Resolve(h) ==
    /\ pc = "serving"
    /\ handlers[h].stage = "accepted"
    /\ \E fs \in StaticOutcomes(handlers[h].request.method) :
         LET req == handlers[h].request
             r == IF cli.static_dir
                  THEN static_app(req, fs, handlers[h].table, cli.modern)
                  ELSE redirect_only_app(req, handlers[h].table, cli.modern)
         IN  handlers' = [handlers EXCEPT ![h] =
                             [stage |-> "done",
                              request |-> req,
                              table |-> handlers[h].table,
                              fs |-> IF r.trace.static_req = <<>> THEN "(none)" ELSE fs,
                              response |-> r.response]]
    /\ UNCHANGED <<file_content, cli, pc, loaded, rules, request, response, trace>>
    /\ UNCHANGED <<validation, exit, importer>>

\* the response is sent and the task ends
Finish(h) ==
    /\ pc = "serving"
    /\ handlers[h].stage = "done"
    /\ handlers' = [handlers EXCEPT ![h] = Idle]
    /\ UNCHANGED <<file_content, cli, pc, loaded, rules, request, response, trace>>
    /\ UNCHANGED <<validation, exit, importer>>

\* the command lines that serve: no import command, no --check, no --validate
Options ==
    [modern : BOOLEAN, static_dir : BOOLEAN,
     import : {"(none)"}, check : {FALSE}, validate : {FALSE}]

Init == InitWith(Files(ServeLines, {<<>>}), Options)

Next == LoadOk \/ LoadFailed \/ ServeRedirects \/ ServeStatic

Spec == Init /\ [][Next]_vars

---------------------------------------------------------------------------
(* main with --check and --validate, and validate_destinations *)

\* if cli.check { .. return; }
RunCheck ==
    /\ pc = "main"
    /\ cli.import = "(none)"
    /\ cli.check
    /\ LET r == load_redirect_rules(file_content)
       IN  /\ r.ok
           /\ loaded' = r
           /\ rules' = r.rules
    /\ pc' = "exited"
    /\ exit' = Exit(EXIT_SUCCESS)
    /\ UNCHANGED <<file_content, cli, request, response, trace>>
    /\ UNCHANGED <<handlers, validation, importer>>

\* what client.head(target).send().await gives: a response whose status is
\* a success, a redirection or another one, or an error
ProbeOutcomes == {"success", "redirection", "other status", "error"}

\* errors.push(format!("{target}: HTTP {status}")), errors.push(format!("{target}: {e}"))
probe_error(target, outcome) ==
    target \o <<": ">> \o (IF outcome = "error" THEN <<"(e)">> ELSE <<"HTTP (status)">>)

\* a collection that keeps the error of the latest failed probe only
errors_keep_last(errors, target, outcome) ==
    IF outcome \in {"success", "redirection"} THEN errors
    ELSE <<probe_error(target, outcome)>>

\* the errors after the probe of target
errors_after(errors, target, outcome) ==
    IF outcome \in {"success", "redirection"} THEN errors
    ELSE Append(errors, probe_error(target, outcome))

\* an iteration that passes every entry of the destination of url in one turn
visited_by_destination(table, url) ==
    {u \in DOMAIN table : table[u].target = table[url].target}

\* the entries of the table that one turn of the loop passes: the iterator
\* of the HashMap yields each entry once
visited(table, url) == {url}

\* if cli.validate { validate_destinations(&rules) .. }: the call, up to the loop
StartValidate ==
    /\ pc = "main"
    /\ cli.import = "(none)"
    /\ ~cli.check
    /\ cli.validate
    /\ LET r == load_redirect_rules(file_content)
       IN  /\ r.ok
           /\ loaded' = r
           /\ rules' = r.rules
           /\ validation' = [stage |-> "probing", pending |-> DOMAIN r.rules,
                             probes |-> <<>>, errors |-> <<>>]
    /\ pc' = "validating"
    /\ UNCHANGED <<file_content, cli, request, response, trace>>
    /\ UNCHANGED <<handlers, exit, importer>>

\* one turn of for (url, (target, _)) in rules, in the order of the HashMap
Probe ==
    /\ pc = "validating"
    /\ validation.stage = "probing"
    /\ \E url \in validation.pending, outcome \in ProbeOutcomes :
         LET target == rules[url].target
         IN  validation' =
                 [validation EXCEPT
                     !.pending = @ \ visited(rules, url),
                     !.probes = Append(@, [url |-> url, target |-> target,
                                           outcome |-> outcome]),
                     !.errors = errors_after(@, target, outcome)]
    /\ UNCHANGED <<file_content, cli, pc, loaded, rules, request, response, trace>>
    /\ UNCHANGED <<handlers, exit, importer>>

\* format!("Validation failed for {count} destinations", count = errors.len())
validation_failed_message(errors) ==
    <<"Validation failed for ">> \o to_string(Len(errors)) \o <<" destinations">>

\* what validate_destinations returns after the loop
validation_result(errors) ==
    IF errors = <<>> THEN [ok |-> TRUE]
    ELSE [ok |-> FALSE, error |-> validation_failed_message(errors)]

\* a main that goes on to serve after a validation that succeeded
serve_after_validation(result) == IF result.ok THEN "serving" ELSE "exited"

\* main after validate_destinations: exit(1) on Err, return on Ok
after_validation(result) == "exited"

\* the end of the loop: validate_destinations returns, and main exits
FinishValidate ==
    /\ pc = "validating"
    /\ validation.stage = "probing"
    /\ validation.pending = {}
    /\ LET result == validation_result(validation.errors)
       IN  /\ validation' = [stage |-> "returned", probes |-> validation.probes,
                             errors |-> validation.errors, result |-> result]
           /\ exit' = Exit(IF result.ok THEN EXIT_SUCCESS ELSE EXIT_FAILURE)
           /\ pc' = after_validation(result)
    /\ UNCHANGED <<file_content, cli, loaded, rules, request, response, trace>>
    /\ UNCHANGED <<handlers, importer>>

\* TcpListener::bind(..) fails: unwrap_or_else(|e| panic!(..))
BindFailed ==
    /\ pc = "main"
    /\ cli.import = "(none)" /\ ~cli.check /\ ~cli.validate
    /\ LET r == load_redirect_rules(file_content)
       IN  /\ r.ok
           /\ loaded' = r
           /\ rules' = r.rules
    /\ pc' = "panicked"
    /\ exit' = Exit(PANIC_EXIT_CODE)
    /\ UNCHANGED <<file_content, cli, request, response, trace>>
    /\ UNCHANGED <<handlers, validation, importer>>

---------------------------------------------------------------------------
(* import.rs: import_links and import_from_rebrandly *)

\* let limit = 25
limit == 25

\* the most pages of limit links or more that the provider sends
MaxPages == 2

None == [some |-> FALSE]
Some(v) == [some |-> TRUE, value |-> v]

\* the links of the provider: the i-th link it sends, in one of two accounts
Accounts == {0, 1}
RebrandlyLink(i, account) ==
    [id |-> i,
     slashtag |-> CASE (i + account) % 4 = 0 -> <<"a">>
                    [] (i + account) % 4 = 1 -> <<"/", "b">>
                    [] (i + account) % 4 = 2 -> <<>>
                    [] OTHER -> <<"/", "/", "c">>,
     destination |-> CASE i % 3 = 0 -> <<"T1">>
                       [] i % 3 = 1 -> <<"T2">>
                       [] OTHER -> <<"T1", ",", "T2">>,
     status |-> CASE (i + account) % 3 = 0 -> Some("active")
                  [] (i + account) % 3 = 1 -> None
                  [] OTHER -> Some("inactive")]

\* the sizes of the pages the provider sends
PageSizes == {0, 1, limit - 1, limit, limit + 1}

\* a page of n links after the sent links
page(sent, n, account) == [i \in 1..n |-> RebrandlyLink(sent + i, account)]

\* a request that never carries the last parameter
links_request_first(last_id) == [limit |-> limit, last |-> None]

\* the request of one turn: format!(".../v1/links?limit={limit}") and &last={last}
links_request(last_id) == [limit |-> limit, last |-> last_id]

\* a filter that drops every link but those whose status is "active"
skipped_unless_active(link) == ~(link.status.some /\ link.status.value = "active")

\* if let Some(status) = &link.status { if status != "active" { continue; } }
skipped(link) == link.status.some /\ link.status.value # "active"

\* a path that gets a '/' before every slashtag
url_path_prefixed(slashtag) == <<"/">> \o slashtag

\* if link.slashtag.starts_with('/') { link.slashtag } else { format!("/{}", ..) }
url_path(slashtag) ==
    IF slashtag # <<>> /\ Head(slashtag) = "/" THEN slashtag ELSE <<"/">> \o slashtag

\* DslfRedirect { url: url_path, target: link.destination, status: 301 }
redirect_of(link) ==
    [url |-> url_path(link.slashtag), target |-> link.destination,
     status |-> MOVED_PERMANENTLY]

\* for link in all_links { .. redirects.push(redirect); }
redirects_of(links) ==
    LET kept == SelectSeq(links, LAMBDA link : ~skipped(link))
    IN  [i \in 1..Len(kept) |-> redirect_of(kept[i])]

\* the csv writer doubles the quotes of a field that it quotes
RECURSIVE double_quotes(_)
double_quotes(f) ==
    IF f = <<>> THEN <<>>
    ELSE (IF Head(f) = Quote THEN <<Quote, Quote>> ELSE <<Head(f)>>)
         \o double_quotes(Tail(f))

\* the csv writer quotes a field when necessary: when it holds the
\* delimiter, a quote or a line terminator
needs_quotes(f) == \E i \in 1..Len(f) : f[i] \in {Delimiter, Quote, NL, "\r"}

write_field(f) ==
    IF needs_quotes(f) THEN <<Quote>> \o double_quotes(f) \o <<Quote>> ELSE f

\* writer.serialize(redirect): the fields of one record
serialize(redirect) ==
    Row(write_field(redirect.url), write_field(redirect.target),
        to_string(redirect.status))

\* the records of for redirect in &redirects { writer.serialize(redirect)?; }
serialize_all(redirects) == [i \in 1..Len(redirects) |-> serialize(redirects[i])]

\* a writer that writes the header row when it is created
written_file_with_header(redirects) == <<HeaderLine>> \o serialize_all(redirects)

\* the lines of the file: the writer writes the header row before the first
\* record it serializes

written_file(redirects) ==
    IF redirects = <<>> THEN <<>> ELSE <<HeaderLine>> \o serialize_all(redirects)

\* an importer that creates the output file before it looks at the links
export_creates_first(all_links, created) ==
    IF ~created THEN [ok |-> FALSE, error |-> "File::create", written |-> FALSE]
    ELSE IF all_links = <<>> THEN [ok |-> TRUE, written |-> TRUE, output |-> <<>>]
    ELSE [ok |-> TRUE, written |-> TRUE,
          output |-> written_file(redirects_of(all_links))]

\* import_from_rebrandly after the loop: what it returns and what it writes
export(all_links, created) ==
    IF all_links = <<>> THEN [ok |-> TRUE, written |-> FALSE]
    ELSE IF ~created THEN [ok |-> FALSE, error |-> "File::create", written |-> FALSE]
    ELSE [ok |-> TRUE, written |-> TRUE,
          output |-> written_file(redirects_of(all_links))]

\* the environment: REBRANDLY_API_KEY, else REBRANDLY_TOKEN, else neither
Environments == {"REBRANDLY_API_KEY", "REBRANDLY_TOKEN", "(not set)"}

\* main after import_links: exit(1) on Err, return on Ok
import_exit(result) == Exit(IF result.ok THEN EXIT_SUCCESS ELSE EXIT_FAILURE)

\* if let Some(Commands::Import { .. }) = cli.command: import_links up to the loop
StartImport ==
    /\ pc = "main"
    /\ cli.import # "(none)"
    /\ \E env \in Environments :
         LET failure ==
                 IF cli.import # "rebrandly" THEN "Unsupported import provider"
                 ELSE IF env = "(not set)" THEN "environment variable not set"
                 ELSE "(none)"
         IN  IF failure # "(none)"
             THEN /\ importer' = [stage |-> "returned", requests |-> <<>>,
                                  pages |-> <<>>, all_links |-> <<>>,
                                  result |-> [ok |-> FALSE, error |-> failure,
                                              written |-> FALSE]]
                  /\ pc' = "exited"
                  /\ exit' = Exit(EXIT_FAILURE)
             ELSE /\ importer' = [stage |-> "fetching", last_id |-> None,
                                  requests |-> <<>>, pages |-> <<>>,
                                  all_links |-> <<>>]
                  /\ pc' = "importing"
                  /\ exit' = exit
    /\ UNCHANGED <<file_content, cli, loaded, rules, request, response, trace>>
    /\ UNCHANGED <<handlers, validation>>

\* what the provider answers to one request
Replies == {"links", "send error", "error status", "json error"}

\* the number of pages of limit links or more among pages
full_pages(pages) == Cardinality({i \in DOMAIN pages : Len(pages[i]) >= limit})

\* whether the loop goes on after a page: neither break is taken
continues(links) == links # <<>> /\ ~(Len(links) < limit)

\* one turn of the loop of import_from_rebrandly; after a break, the rest of
\* the function and the return to main
FetchPage ==
    /\ pc = "importing"
    /\ importer.stage = "fetching"
    /\ \E reply \in Replies, n \in PageSizes, account \in Accounts, created \in BOOLEAN :
         LET sent == links_request(importer.last_id)
             links == page(Len(importer.all_links), n, account)
             all_links == importer.all_links \o links
             last_id == IF links = <<>> THEN importer.last_id
                        ELSE Some(links[Len(links)].id)
         IN  IF reply # "links"
             THEN /\ n = 0 /\ account = 0 /\ created
                  /\ importer' = [stage |-> "returned",
                                  requests |-> Append(importer.requests, sent),
                                  pages |-> importer.pages,
                                  all_links |-> importer.all_links,
                                  result |-> [ok |-> FALSE, error |-> reply,
                                              written |-> FALSE]]
                  /\ pc' = "exited"
                  /\ exit' = Exit(EXIT_FAILURE)
             ELSE /\ n >= limit => full_pages(importer.pages) < MaxPages
                  /\ n = 0 => account = 0
                  /\ IF continues(links)
                     THEN /\ created
                          /\ importer' = [stage |-> "fetching", last_id |-> last_id,
                                          requests |-> Append(importer.requests, sent),
                                          pages |-> Append(importer.pages, links),
                                          all_links |-> all_links]
                          /\ pc' = pc
                          /\ exit' = exit
                     ELSE /\ all_links = <<>> => created
                          /\ importer' = [stage |-> "returned",
                                          requests |-> Append(importer.requests, sent),
                                          pages |-> Append(importer.pages, links),
                                          all_links |-> all_links,
                                          result |-> export(all_links, created)]
                          /\ pc' = "exited"
                          /\ exit' = import_exit(export(all_links, created))
    /\ UNCHANGED <<file_content, cli, loaded, rules, request, response, trace>>
    /\ UNCHANGED <<handlers, validation>>

---------------------------------------------------------------------------
(* main in each of its modes *)

MainFiles ==
    {<<HeaderLine>>, <<HeaderLine, RowA301>>,
     <<HeaderLine, RowASlash302, RowRoot302>>,
     <<HeaderLine, RowA301, RowASlash302, RowRoot302>>,
     <<HeaderLine, RowA301, RowA302>>,
     <<HeaderLine, RowA303>>}

MainOptions ==
    [modern : {FALSE}, static_dir : BOOLEAN,
     import : {"(none)", "rebrandly", "other"}, check : BOOLEAN, validate : BOOLEAN]

InitMain == InitWith(MainFiles, MainOptions)

NextMain ==
    \/ StartImport
    \/ FetchPage
    \/ LoadFailed
    \/ RunCheck
    \/ StartValidate
    \/ Probe
    \/ FinishValidate
    \/ LoadOk
    \/ BindFailed
    \/ ServeRedirects
    \/ ServeStatic

SpecMain == InitMain /\ [][NextMain]_vars

\* The importer alone, with the scheduling of the runtime: a turn of the loop
\* that can be taken is taken
InitImport == InitWith({<<HeaderLine>>}, {o \in MainOptions : o.import # "(none)"})

NextImport == StartImport \/ FetchPage

SpecImport ==
    InitImport /\ [][NextImport]_vars /\ WF_vars(StartImport) /\ WF_vars(FetchPage)

\* The server with requests handled at the same time
ConcurrentFiles ==
    {<<HeaderLine, RowA301>>, <<HeaderLine, RowA301, RowASlash302>>,
     <<HeaderLine, RowA303>>}

InitConcurrent == InitWith(ConcurrentFiles, Options)

NextConcurrent ==
    \/ LoadOk
    \/ LoadFailed
    \/ \E h \in 1..MaxHandlers : Accept(h) \/ Resolve(h) \/ Finish(h)

SpecConcurrent == InitConcurrent /\ [][NextConcurrent]_vars

\* The loader alone, on files of rows that load and rows that do not
InitLoad ==
    InitWith(Files(LoadLines, {<<>>}), {o \in Options : ~o.modern /\ ~o.static_dir})

NextLoad == LoadOk \/ LoadFailed

SpecLoad == InitLoad /\ [][NextLoad]_vars

\* The loader alone, on files whose columns are in any order, with or
\* without a fourth column
ColumnNames == {"url", "target", "status", "extra"}

\* the orders of the columns: url, target and status, and extra or not
Layouts ==
    {l \in [1..3 -> ColumnNames] \cup [1..4 -> ColumnNames] :
        /\ \A i, j \in DOMAIN l : i # j => l[i] # l[j]
        /\ {"url", "target", "status"} \subseteq {l[i] : i \in DOMAIN l}}

\* the rows, by the name of their fields
ColumnRows ==
    {[url |-> <<"/", "a">>, target |-> <<"T1">>, status |-> <<"3", "0", "1">>,
      extra |-> <<"x">>],
     [url |-> <<"/", "a">>, target |-> <<"T2">>, status |-> <<"3", "0", "2">>,
      extra |-> <<"#", "c">>],
     [url |-> <<"/", "b">>, target |-> <<"#", "c">>, status |-> <<"3", "0", "1">>,
      extra |-> <<"x">>],
     [url |-> <<"/", "b">>, target |-> <<"T1">>, status |-> <<"3", "0", "3">>,
      extra |-> <<"x">>]}

\* the fields fs[k..] of a line, with the delimiter between them
RECURSIVE join_fields(_, _)
join_fields(fs, k) ==
    IF k > Len(fs) THEN <<>>
    ELSE IF k = Len(fs) THEN fs[k]
    ELSE fs[k] \o <<Delimiter>> \o join_fields(fs, k + 1)

\* the file of the rows in the layout: the header row, then the rows
layout_file(layout, rows) ==
    <<join_fields([k \in DOMAIN layout |-> <<layout[k]>>], 1)>>
    \o [i \in DOMAIN rows |->
            join_fields([k \in DOMAIN layout |-> rows[i][layout[k]]], 1)]

ColumnFiles ==
    {layout_file(l, rows) : l \in Layouts, rows \in SeqsUpTo(ColumnRows, MaxLines)}

InitColumns ==
    InitWith(ColumnFiles, {o \in Options : ~o.modern /\ ~o.static_dir})

SpecColumns == InitColumns /\ [][NextLoad]_vars

\* The loader alone, on files with ignored lines and quoted fields
InitLines ==
    InitWith(Files(CommentedLines, {<<>>} \cup {<<l>> : l \in IgnoredLines}),
             {o \in Options : ~o.modern /\ ~o.static_dir})

SpecLines == InitLines /\ [][NextLoad]_vars

---------------------------------------------------------------------------
(* What the claims speak of *)

\* the records the reader finds in the file, and the data rows among them
Records == csv_records(filtered_content(file_content))
RowsOf(records) == IF records = <<>> THEN <<>> ELSE Tail(records)
\* the header row names the columns url, target, status in this order
PlainHeader(records) ==
    records # <<>> /\ records[1] = <<<<"url">>, <<"target">>, <<"status">>>>

AllDigits(f) ==
    f # <<>> /\ \A i \in 1..Len(f) : f[i] \in {"0", "1", "2", "3", "4", "5", "6", "7", "8", "9"}
DigitOf(c) ==
    CASE c = "0" -> 0 [] c = "1" -> 1 [] c = "2" -> 2 [] c = "3" -> 3 [] c = "4" -> 4
      [] c = "5" -> 5 [] c = "6" -> 6 [] c = "7" -> 7 [] c = "8" -> 8 [] c = "9" -> 9
RECURSIVE DecimalValue(_)
DecimalValue(f) ==
    IF f = <<>> THEN 0
    ELSE 10 * DecimalValue(SubSeq(f, 1, Len(f) - 1)) + DigitOf(f[Len(f)])
\* the field is a non-negative integer that fits in 16 bits
IsU16(f) ==
    LET d == IF f # <<>> /\ f[1] = "+" THEN Tail(f) ELSE f
    IN  AllDigits(d) /\ DecimalValue(d) <= 65535

\* a row of three fields whose status is 301 or 302
ValidRow(r) == Len(r) = 3 /\ r[3] \in {<<"3", "0", "1">>, <<"3", "0", "2">>}
StatusOf(r) == IF r[3] = <<"3", "0", "1">> THEN 301 ELSE 302
\* a row of three fields whose status is a number other than 301 and 302
OtherStatusRow(r) == Len(r) = 3 /\ AllDigits(r[3]) /\ IsU16(r[3]) /\ ~ValidRow(r)
\* a row with fewer than three fields, or whose status is no 16-bit number
MalformedRow(r) == Len(r) < 3 \/ (Len(r) = 3 /\ ~IsU16(r[3]))

\* the load has failed as a whole: an error, and no table
LoadFailedWhole ==
    /\ pc = "panicked"
    /\ ~loaded.ok
    /\ "rules" \notin DOMAIN loaded
    /\ rules = EmptyTable

\* s occurs in t
Occurs(s, t) == \E k \in 0..(Len(t) - Len(s)) : SubSeq(t, k + 1, k + Len(s)) = s

\* C2: when several data rows have the same url, the table has one entry for
\* it, with the target and status of the last of them; the table has no other
\* keys than the urls of the rows, and rows that are all valid raise no error.
C2_LastRowWins ==
    pc # "main" =>
        LET records == Records
            rows == RowsOf(records)
        IN  PlainHeader(records) =>
            /\ (\A i \in DOMAIN rows : ValidRow(rows[i])) => pc = "serving"
            /\ pc = "serving" =>
                  /\ DOMAIN loaded.rules = {rows[i][1] : i \in DOMAIN rows}
                  /\ \A i \in DOMAIN rows :
                        (\A j \in DOMAIN rows : j > i => rows[j][1] # rows[i][1])
                        => loaded.rules[rows[i][1]]
                             = [target |-> rows[i][2], status |-> StatusOf(rows[i])]

\* a file loaded with two rows of the same url, different targets and statuses
C2_Witness ==
    /\ pc = "serving"
    /\ LET records == Records
           rows == RowsOf(records)
       IN  /\ PlainHeader(records)
           /\ \E i, j \in DOMAIN rows :
              /\ i < j
              /\ rows[i][1] = rows[j][1]
              /\ rows[i][2] # rows[j][2]
              /\ StatusOf(rows[i]) # StatusOf(rows[j])
              /\ loaded.rules[rows[j][1]].target = rows[j][2]

\* C3: a data row whose status is a number other than 301 and 302 makes the
\* load fail as a whole, whatever rows precede or follow it; when the rows
\* before it are valid the error message holds the number and
\* "Must be 301 or 302".
C3_InvalidStatusRejected ==
    pc # "main" =>
        LET records == Records
            rows == RowsOf(records)
        IN  PlainHeader(records) =>
            \A i \in DOMAIN rows :
                OtherStatusRow(rows[i]) =>
                    /\ LoadFailedWhole
                    /\ (\A j \in 1..(i - 1) : ValidRow(rows[j])) =>
                          /\ Occurs(rows[i][3], loaded.error)
                          /\ loaded.error[Len(loaded.error)] = ". Must be 301 or 302"

\* a failed load of: a valid row, a row with status 303, a valid row of the same url
C3_Witness ==
    /\ pc = "panicked"
    /\ LET records == Records
           rows == RowsOf(records)
       IN  /\ PlainHeader(records)
           /\ Len(rows) = 3
           /\ ValidRow(rows[1])
           /\ OtherStatusRow(rows[2])
           /\ ValidRow(rows[3])
           /\ rows[3][1] = rows[2][1]
           /\ Occurs(rows[2][3], loaded.error)

\* C4: a data row with fewer than three fields, or whose status field is not
\* a non-negative integer that fits in 16 bits, makes the load fail as a
\* whole: an error and no table, not even of the rows read before it.
C4_MalformedRowRejected ==
    pc # "main" =>
        LET records == Records
            rows == RowsOf(records)
        IN  (PlainHeader(records) /\ \E i \in DOMAIN rows : MalformedRow(rows[i]))
                => LoadFailedWhole

\* a failed load whose first row is valid and is followed by a short row and
\* by a row whose status is no 16-bit number
C4_Witness ==
    /\ pc = "panicked"
    /\ LET records == Records
           rows == RowsOf(records)
       IN  /\ PlainHeader(records)
           /\ Len(rows) = 3
           /\ ValidRow(rows[1])
           /\ \E i, j \in 2..3 :
                 /\ Len(rows[i]) < 3
                 /\ Len(rows[j]) = 3 /\ ~IsU16(rows[j][3])

---------------------------------------------------------------------------
(* What the claims about a served request speak of *)

\* a request has been served (or its handler has panicked)
Served == pc = "serving" /\ request # NoRequest

\* the wire status of a stored status of 301 or 302
WireStatus(status, modern) ==
    IF status = 301 THEN (IF modern THEN 308 ELSE 301)
    ELSE (IF modern THEN 307 ELSE 302)

\* the values of the Location headers of a response
Locations(resp) == {h.value : h \in {x \in resp.headers : x.name = "location"}}

\* the response is the redirect of the rule stored under key
RedirectOf(key) ==
    /\ ~response.panicked
    /\ response.status = WireStatus(rules[key].status, cli.modern)
    /\ Locations(response) = {rules[key].target}

\* p without its trailing slashes
TrimAll(p) ==
    LET k == CHOOSE n \in 0..Len(p) :
                 /\ n = 0 \/ p[n] # "/"
                 /\ \A j \in (n + 1)..Len(p) : p[j] = "/"
    IN  SubSeq(p, 1, k)

\* the path of the request with its percent-encoded characters decoded
Decodable(p) == \A i \in 1..Len(p) : p[i] # "%FF"
Decoded(p) == [i \in 1..Len(p) |-> IF p[i] = "%61" THEN "a" ELSE p[i]]

\* the request reached the resolver: the fallback service resolves every
\* request, the route only a GET or HEAD of a path longer than "/" that decodes
Resolved ==
    /\ Served
    /\ \/ cli.static_dir
       \/ /\ request.method \in {"GET", "HEAD"}
          /\ Len(request.path) >= 2
          /\ Decodable(request.path)

\* the path the resolver is given
LookupPath == IF cli.static_dir THEN request.path ELSE Decoded(request.path)

\* C1: for a stored status of 301 or 302, create_redirect_response never
\* fails and gives 301 -> 301 (308 in modern mode), 302 -> 302 (307 in modern
\* mode) and no other status.
C1_TranslationNeverFails ==
    (Served /\ trace.matched # <<>>) =>
        LET rule == rules[trace.matched[1]]
        IN  rule.status \in {301, 302} =>
                /\ ~response.panicked
                /\ response.status = WireStatus(rule.status, cli.modern)

\* C5: a request path that is a key of the table gets the rule stored under
\* it, and not the rule stored under the path without its trailing slashes.
C5_ExactMatchFirst ==
    (Resolved /\ LookupPath \in DOMAIN rules) =>
        /\ trace.matched = <<LookupPath>>
        /\ ~response.panicked => RedirectOf(LookupPath)

\* /a/ is requested of a table that has both /a and /a/, with different rules
C5_Witness ==
    /\ Resolved
    /\ LookupPath = <<"/", "a", "/">>
    /\ {LookupPath, TrimAll(LookupPath)} \subseteq DOMAIN rules
    /\ rules[LookupPath] # rules[TrimAll(LookupPath)]
    /\ RedirectOf(LookupPath)

\* C6: a request path that is not a key of the table is looked up with all of
\* its trailing slashes removed, and gets the rule stored under that key, if
\* there is one: a stored 301 is answered with 301, and with 308 in modern mode.
C6_TrimmedFallback ==
    (Resolved /\ LookupPath \notin DOMAIN rules /\ TrimAll(LookupPath) \in DOMAIN rules) =>
        /\ trace.matched = <<TrimAll(LookupPath)>>
        /\ trace.lookups = <<LookupPath, TrimAll(LookupPath)>>
        /\ ~response.panicked => RedirectOf(TrimAll(LookupPath))

\* /a// is requested in modern mode of a table that has /a with 301 only
C6_Witness ==
    /\ Resolved
    /\ cli.modern
    /\ LookupPath = <<"/", "a", "/", "/">>
    /\ DOMAIN rules = {<<"/", "a">>}
    /\ rules[<<"/", "a">>].status = 301
    /\ response.status = 308
    /\ RedirectOf(<<"/", "a">>)

\* the request is answered with 404 and no Location header
PlainNotFound ==
    /\ ~response.panicked
    /\ response.status = 404
    /\ Locations(response) = {}

MatchingKey ==
    IF request.path \in DOMAIN rules THEN request.path ELSE TrimAll(request.path)

\* C8: with a static directory, the static-file service is called only after
\* the exact and the trimmed lookup have missed, and a request whose path
\* matches a rule is always answered with the redirect, whatever file exists.
C8_RedirectsBeforeStatic ==
    (Served /\ cli.static_dir) =>
        /\ trace.static_req # <<>> =>
              /\ trace.matched = <<>>
              /\ request.path \notin DOMAIN rules
              /\ TrimAll(request.path) \notin DOMAIN rules
        /\ MatchingKey \in DOMAIN rules =>
              /\ trace.static_req = <<>>
              /\ RedirectOf(MatchingKey)

\* C9: with a static directory, a request that matches no rule is handed
\* unchanged to the static-file service, whose response is returned as it is;
\* when no file is found the response is a 404 with the content of 404.html,
\* or with the body "Not Found" when 404.html cannot be read.
C9_StaticFallback ==
    (Served /\ cli.static_dir /\ MatchingKey \notin DOMAIN rules) =>
        /\ trace.static_req = <<[method |-> request.method, path |-> request.path]>>
        /\ trace.static_res # <<>>
        /\ response = trace.static_res[1]
        /\ request.fs = "custom_404" =>
              response.status = 404 /\ response.body = NotFoundHtml
        /\ request.fs = "plain_404" =>
              response.status = 404 /\ response.body = <<"Not Found">>

\* /a/ is requested of a table with rules but none for /a/ or /a, no file is
\* found and 404.html is served
C9_Witness ==
    /\ Served
    /\ cli.static_dir
    /\ request.path = <<"/", "a", "/">>
    /\ rules # EmptyTable
    /\ MatchingKey \notin DOMAIN rules
    /\ request.fs = "custom_404"
    /\ trace.static_req = <<[method |-> "GET", path |-> request.path]>>
    /\ response.status = 404
    /\ response.body = NotFoundHtml

---------------------------------------------------------------------------
(* What the claim about comment lines and blank lines speaks of *)

\* the line is empty or holds whitespace only
BlankLine(line) == \A i \in 1..Len(line) : line[i] \in {" ", "\t"}
\* the line starts with '#'
HashLine(line) == line # <<>> /\ line[1] = "#"

\* line i of the file lies inside a quoted field that an earlier line opened
InsideQuotes(file, i) ==
    csv_scan(filtered_content(SubSeq(file, 1, i - 1))).st = "InQuotedField"

\* the lines of the file whose position is in keep, in their order
RECURSIVE LinesAt(_, _, _)
LinesAt(file, i, keep) ==
    IF i > Len(file) THEN <<>>
    ELSE (IF i \in keep THEN <<file[i]>> ELSE <<>>) \o LinesAt(file, i + 1, keep)

\* the file without its blank lines and without its lines that start with '#'
DataRowsAlone(file) ==
    LinesAt(file, 1, {i \in 1..Len(file) : ~BlankLine(file[i]) /\ ~HashLine(file[i])})

\* the file without its blank lines and without its lines that start with
\* '#' outside the quoted fields
WithoutIgnoredLines(file) ==
    LinesAt(file, 1,
            {i \in 1..Len(file) :
                /\ ~BlankLine(file[i])
                /\ HashLine(file[i]) => InsideQuotes(file, i)})

---------------------------------------------------------------------------
(* What the claim about comment lines speaks of *)

\* the first character of the line that is no whitespace is '#'
CommentLike(line) ==
    \E i \in 1..Len(line) :
        /\ line[i] = "#"
        /\ \A j \in 1..(i - 1) : line[j] \in {" ", "\t"}

\* the line has whitespace before its '#', and neither a comma nor a quote
IndentedComment(line) ==
    /\ CommentLike(line)
    /\ ~HashLine(line)
    /\ \A i \in 1..Len(line) : line[i] \notin {",", "\""}

---------------------------------------------------------------------------
(* What the claims about the keys and the values of the table speak of *)

\* C12: every key of a loaded table is non-empty after trimming whitespace:
\* a row whose url is empty or whitespace only never becomes a rule.
C12_KeysNotBlank ==
    pc = "serving" => \A k \in DOMAIN loaded.rules : ~BlankLine(k)
\* the fields of a line without quotes: its parts between the commas
RECURSIVE SplitCommas(_)
SplitCommas(line) ==
    IF \A i \in 1..Len(line) : line[i] # ","
    THEN <<line>>
    ELSE LET k == CHOOSE n \in 1..Len(line) :
                      line[n] = "," /\ \A j \in 1..(n - 1) : line[j] # ","
         IN  <<SubSeq(line, 1, k - 1)>> \o SplitCommas(SubSeq(line, k + 1, Len(line)))

\* the file is a header row and rows without quotes
Unquoted(file) ==
    /\ file # <<>>
    /\ file[1] = HeaderLine
    /\ \A i \in 1..Len(file) : \A j \in 1..Len(file[i]) : file[i][j] # "\""

\* C13: the key and the destination of an entry of the table are the url
\* field and the target field of its source row as they are written, with
\* their whitespace and their capitals, and the Location header of a redirect
\* is the stored destination of the matched rule.
C13_Verbatim ==
    pc = "serving" =>
        /\ Unquoted(file_content) =>
              LET rows == [i \in 1..(Len(file_content) - 1) |->
                              SplitCommas(file_content[i + 1])]
              IN  /\ DOMAIN rules = {rows[i][1] : i \in DOMAIN rows}
                  /\ \A i \in DOMAIN rows :
                        (\A j \in DOMAIN rows : j > i => rows[j][1] # rows[i][1])
                        => rules[rows[i][1]].target = rows[i][2]
        /\ (Served /\ trace.matched # <<>> /\ ~response.panicked) =>
              Locations(response) = {rules[trace.matched[1]].target}

\* the table holds the key " /A " with the destination " T1 ", and a request
\* for /a was answered with the destination stored under /a
C13_Witness ==
    /\ Served
    /\ <<" ", "/", "A", " ">> \in DOMAIN rules
    /\ rules[<<" ", "/", "A", " ">>].target = <<" ", "T1", " ">>
    /\ trace.matched = <<<<"/", "a">>>>
    /\ Locations(response) = {rules[<<"/", "a">>].target}

---------------------------------------------------------------------------
(* What the claim about the leading '/' speaks of *)

\* the path has exactly one leading '/'
OneLeadingSlash(p) == p # <<>> /\ p[1] = "/" /\ (Len(p) >= 2 => p[2] # "/")

\* handle_redirect was called for the request
HandlerCalled == Resolved /\ ~cli.static_dir

\* C14 as it is stated: the path handle_redirect looks up has exactly one
\* leading '/', also when the captured path begins with '/'.
C14_SingleLeadingSlash ==
    HandlerCalled => OneLeadingSlash(trace.lookups[1])

\* C14: handle_redirect puts one '/' before the captured path, whatever the
\* captured path begins with: the path it looks up is the decoded path of the
\* request, which has exactly one leading '/' if and only if the captured
\* path does not begin with '/'.
C14_SlashPrepended ==
    HandlerCalled =>
        LET captured == Decoded(Tail(request.path))
        IN  /\ trace.lookups[1] = <<"/">> \o captured
            /\ OneLeadingSlash(trace.lookups[1]) <=> captured[1] # "/"

\* // is requested: the captured path is /, and the path looked up is //
C14_Witness ==
    /\ HandlerCalled
    /\ request.path = <<"/", "/">>
    /\ trace.lookups[1] = <<"/", "/">>
    /\ ~OneLeadingSlash(trace.lookups[1])

---------------------------------------------------------------------------
(* What the claim about the shared table speaks of *)

\* the tasks that have built their response
DoneHandlers == {h \in 1..MaxHandlers : handlers[h].stage = "done"}

\* the table is built before requests are handled, and handling leaves it as
\* it is: every task works with the table built at load time
TableFixed ==
    /\ \A h \in 1..MaxHandlers :
          handlers[h].stage # "idle" =>
              /\ pc = "serving"
              /\ rules = loaded.rules
              /\ handlers[h].table = rules
    /\ \A h \in DoneHandlers :
          LET req == handlers[h].request
          IN  (req.method = "GET" /\ req.path \in DOMAIN rules) =>
                  /\ ~handlers[h].response.panicked
                  /\ Locations(handlers[h].response) = {rules[req.path].target}

\* no step changes the table once the server listens
TableUnchanged == pc = "serving" => (rules' = rules /\ loaded' = loaded)

---------------------------------------------------------------------------
(* What the claims about the modes of main speak of *)

\* a request has been received, by the server or by one of its tasks
SomeRequest ==
    request # NoRequest \/ \E h \in 1..MaxHandlers : handlers[h].stage # "idle"

\* C16: requests are served only after load_redirect_rules has returned
\* successfully for the whole configuration, every row of which is valid; when
\* the load fails the process aborts, and no request is ever served.
C16_ServeAfterLoad ==
    /\ [](SomeRequest =>
            /\ pc = "serving"
            /\ loaded.ok
            /\ rules = loaded.rules
            /\ LET rows == RowsOf(Records)
               IN  \A i \in DOMAIN rows : ValidRow(rows[i]))
    /\ []((pc # "main" /\ ~loaded.ok) =>
            /\ pc = "panicked"
            /\ exit = Exit(101)
            /\ ~SomeRequest)
    /\ [][pc = "panicked" => pc' = "panicked"]_vars

\* a request served from a table of three rows, the last of which was loaded
\* from the last line of the file
C16_Witness ==
    /\ Served
    /\ ~response.panicked
    /\ response.status = 301
    /\ Len(RowsOf(Records)) = 3
    /\ RowsOf(Records)[3][1] = request.path
    /\ loaded.ok

\* the probes that failed: no response, or a status that is neither a
\* success nor a redirection
FailedProbes ==
    {i \in DOMAIN validation.probes :
        validation.probes[i].outcome \in {"other status", "error"}}

ProbedRules == {validation.probes[i].url : i \in DOMAIN validation.probes}

\* C17: validate_destinations returns only after it has probed the
\* destination of every rule of the table, whatever the earlier probes gave;
\* it returns an error iff at least one probe failed, the message of which
\* carries the number of failed probes, and Ok otherwise; for an empty table
\* it returns Ok.
C17_ValidateProbesEveryRule ==
    /\ validation.stage = "probing" =>
           /\ ProbedRules \subseteq DOMAIN rules
           /\ Len(validation.probes) = Cardinality(ProbedRules)
    /\ validation.stage = "returned" =>
           /\ ProbedRules = DOMAIN rules
           /\ Len(validation.probes) = Cardinality(DOMAIN rules)
           /\ \A i \in DOMAIN validation.probes :
                  validation.probes[i].target = rules[validation.probes[i].url].target
           /\ validation.result.ok <=> FailedProbes = {}
           /\ ~validation.result.ok =>
                  /\ Len(validation.result.error) = 3
                  /\ validation.result.error[1] = "Validation failed for "
                  /\ DigitOf(validation.result.error[2]) = Cardinality(FailedProbes)
                  /\ validation.result.error[3] = " destinations"
                  /\ exit = Exit(1)
           /\ validation.result.ok => exit = Exit(0)
           /\ rules = EmptyTable => validation.result.ok

\* a validation of three rules the first and the last probes of which failed,
\* the second succeeding: it returned an error that counts two failures
C17_Witness ==
    /\ validation.stage = "returned"
    /\ Len(validation.probes) = 3
    /\ FailedProbes = {1, 3}
    /\ ~validation.result.ok
    /\ validation.result.error[2] = "2"

\* the destinations of the table
Destinations == {rules[u].target : u \in DOMAIN rules}

ProbesOf(d) == {i \in DOMAIN validation.probes : validation.probes[i].target = d}

\* the reports of the failures of destination d: "d: ..."
ReportsOf(d) ==
    {i \in DOMAIN validation.errors :
        SubSeq(validation.errors[i], 1, Len(d)) = d}

\* C18 as stated: validate_destinations issues exactly one probe per distinct
\* destination; a destination that several rules share is probed once and
\* reported once.
C18_OneProbePerDestination ==
    validation.stage = "returned" =>
        \A d \in Destinations :
            /\ Cardinality(ProbesOf(d)) = 1
            /\ Cardinality(ReportsOf(d)) <= 1

\* C18: validate_destinations issues exactly one probe per rule: a
\* destination that n rules share is probed n times, and each of its probes
\* that fails is reported and counted.
C18_OneProbePerRule ==
    validation.stage = "returned" =>
        /\ \A u \in DOMAIN rules :
               Cardinality({i \in DOMAIN validation.probes :
                               validation.probes[i].url = u}) = 1
        /\ \A d \in Destinations :
               /\ Cardinality(ProbesOf(d)) =
                      Cardinality({u \in DOMAIN rules : rules[u].target = d})
               /\ Cardinality(ReportsOf(d)) = Cardinality(ProbesOf(d) \cap FailedProbes)
        /\ Len(validation.errors) = Cardinality(FailedProbes)

\* a validation of a table two rules of which share a destination: that
\* destination was probed twice, failed twice and is reported twice
C18_Witness ==
    /\ validation.stage = "returned"
    /\ \E d \in Destinations :
           /\ Cardinality({u \in DOMAIN rules : rules[u].target = d}) = 2
           /\ Cardinality(ProbesOf(d)) = 2
           /\ Cardinality(ReportsOf(d)) = 2
    /\ validation.result.error[2] = "2"

\* the mode of an invocation, by its command line
Mode ==
    IF cli.import # "(none)" THEN "import"
    ELSE IF cli.check THEN "check"
    ELSE IF cli.validate THEN "validate"
    ELSE "serve"

Serving == pc = "serving" \/ SomeRequest

RECURSIVE Concat(_)
Concat(ps) == IF ps = <<>> THEN <<>> ELSE Head(ps) \o Concat(Tail(ps))

Importing == importer.stage \in {"fetching", "returned"}

\* a page that ends the import: an empty one, or one of fewer than 25 links
EndPage(links) == Len(links) < 25

\* the import went up to a page that ends it, with no failure of the provider
Imported ==
    /\ importer.stage = "returned"
    /\ importer.pages # <<>>
    /\ Len(importer.requests) = Len(importer.pages)

\* C20: every request of the importer asks for 25 links; the first carries
\* no last parameter, each later one the id of the last link of the page
\* before it; the importer sends no request after the first page that is
\* empty or has fewer than 25 links; the links it keeps are those of the
\* fetched pages, in the order fetched; and, the provider sending such a page
\* or failing at some point, the importer returns.
C20_Pagination ==
    /\ [](Importing =>
            /\ \A k \in DOMAIN importer.requests :
                   /\ importer.requests[k].limit = 25
                   /\ k = 1 => ~importer.requests[k].last.some
                   /\ k > 1 =>
                          /\ importer.requests[k].last.some
                          /\ importer.pages[k - 1] # <<>>
                          /\ importer.requests[k].last.value =
                                 importer.pages[k - 1][Len(importer.pages[k - 1])].id
            /\ Len(importer.pages) <= Len(importer.requests)
            /\ Len(importer.requests) <= Len(importer.pages) + 1
            /\ \A k \in DOMAIN importer.pages :
                   EndPage(importer.pages[k]) =>
                       k = Len(importer.pages) /\ Imported
            /\ Imported => EndPage(importer.pages[Len(importer.pages)])
            /\ importer.stage = "fetching" => Len(importer.requests) = Len(importer.pages)
            /\ importer.all_links = Concat(importer.pages))
    /\ <>(importer.stage = "returned")

\* an import of three pages, of 25, 26 and 24 links: three requests, the
\* second and the third carrying the ids 25 and 51, and 75 links kept
C20_Witness ==
    /\ Imported
    /\ Len(importer.pages) = 3
    /\ Len(importer.pages[1]) = 25
    /\ Len(importer.pages[2]) = 26
    /\ Len(importer.pages[3]) = 24
    /\ importer.requests[2].last = Some(25)
    /\ importer.requests[3].last = Some(51)
    /\ Len(importer.all_links) = 75
    /\ importer.result.ok

---------------------------------------------------------------------------
(* What the claims about the importer's output speak of *)

\* the importer has written the output file
Written == importer.stage = "returned" /\ importer.result.written

\* the rows of the written file after its first line
WrittenRows ==
    IF importer.result.output = <<>> THEN <<>> ELSE Tail(importer.result.output)

\* the fetched links of upstream status "active"
ActiveLinks ==
    SelectSeq(importer.all_links,
              LAMBDA l : l.status.some /\ l.status.value = "active")

\* the fetched links that have no upstream status
NoStatusLinks == SelectSeq(importer.all_links, LAMBDA l : ~l.status.some)

\* the fetched links whose upstream status is given and is not "active"
OtherStatusLinks ==
    SelectSeq(importer.all_links,
              LAMBDA l : l.status.some /\ l.status.value # "active")

\* the fetched links but those of OtherStatusLinks, in fetch order
KeptLinks ==
    SelectSeq(importer.all_links,
              LAMBDA l : ~l.status.some \/ l.status.value = "active")

\* the fields of a line of the written file, as a csv reader reads them
FieldsOf(row) == csv_records(row \o <<NL>>)[1]

\* the second field of a row
TargetField(row) == FieldsOf(row)[2]

\* C21 as stated: the importer writes a row only for the links whose
\* upstream status is "active"; every other fetched link, of another status
\* or of none, is dropped.
C21_OnlyActiveWritten ==
    Written => Len(WrittenRows) = Len(ActiveLinks)

\* C21: the importer writes one row, in fetch order, for every fetched link
\* whose upstream status is "active" or that has no upstream status; it drops
\* the links whose status is given and differs from "active".
C21_InactiveDropped ==
    Written =>
        /\ Len(WrittenRows) = Len(KeptLinks)
        /\ Len(WrittenRows) = Len(ActiveLinks) + Len(NoStatusLinks)
        /\ \A i \in DOMAIN WrittenRows :
               TargetField(WrittenRows[i]) = KeptLinks[i].destination

\* a written file after a fetch of links of the three kinds: rows for the
\* active ones and for those without status, none for the others
C21_Witness ==
    /\ Written
    /\ ActiveLinks # <<>>
    /\ NoStatusLinks # <<>>
    /\ OtherStatusLinks # <<>>
    /\ Len(WrittenRows) = Len(importer.all_links) - Len(OtherStatusLinks)

\* C22 as stated: whenever the importer writes the output file, the file is
\* the header row url,target,status once, then one row per kept link, each of
\* status 301; the header row is there also when no link is kept.
C22_HeaderAlways ==
    Written =>
        /\ importer.result.output # <<>>
        /\ importer.result.output[1] = <<"url", ",", "target", ",", "status">>
        /\ Len(importer.result.output) = 1 + Len(KeptLinks)

\* C22: whenever the importer writes the output file and keeps at least one
\* link, the file is the header row url,target,status once, then one row of
\* three fields per kept link, the third of which is 301; when it keeps no
\* link, the file it writes is empty, without a header row.
C22_HeaderBeforeFirstRow ==
    Written =>
        /\ KeptLinks = <<>> => importer.result.output = <<>>
        /\ KeptLinks # <<>> =>
               /\ importer.result.output[1] = <<"url", ",", "target", ",", "status">>
               /\ Len(importer.result.output) = 1 + Len(KeptLinks)
               /\ \A i \in DOMAIN WrittenRows :
                      /\ WrittenRows[i] # <<"url", ",", "target", ",", "status">>
                      /\ Len(FieldsOf(WrittenRows[i])) = 3
                      /\ FieldsOf(WrittenRows[i])[3] = <<"3", "0", "1">>

\* a written file of a header row and 50 rows, one of which has a quoted
\* destination
C22_Witness ==
    /\ Written
    /\ Len(importer.result.output) = 51
    /\ importer.result.output[1] = HeaderLine
    /\ \E i \in DOMAIN WrittenRows :
           /\ Quote \in {WrittenRows[i][j] : j \in DOMAIN WrittenRows[i]}
           /\ FieldsOf(WrittenRows[i])[3] = <<"3", "0", "1">>

---------------------------------------------------------------------------
(* What the claim about the order of the columns speaks of *)

\* the position of the column of that name in the header row of the file
ColumnAt(name) ==
    CHOOSE k \in DOMAIN SplitCommas(file_content[1]) :
        SplitCommas(file_content[1])[k] = <<name>>

\* line i of the file in the layout url,target,status
Reordered(i) ==
    LET fields == SplitCommas(file_content[i])
    IN  fields[ColumnAt("url")] \o <<",">> \o fields[ColumnAt("target")]
        \o <<",">> \o fields[ColumnAt("status")]

\* the lines of the file from line i on that are in keep, reordered
ReorderedLines(keep) ==
    LET kept == SelectSeq([i \in 1..Len(file_content) |-> i], LAMBDA i : i \in keep)
    IN  [k \in 1..Len(kept) |-> Reordered(kept[k])]

\* the table of the load of file is the table that main has loaded
SameLoadAs(file) ==
    LET standard == load_redirect_rules(file)
    IN  /\ loaded.ok <=> standard.ok
        /\ loaded.ok => loaded.rules = standard.rules

\* the layout of the file is not url,target,status
OtherLayout == file_content[1] # <<"url", ",", "target", ",", "status">>

---------------------------------------------------------------------------
(* What the claim about two loads of one text speaks of *)

\* the text is valid: the header row, then rows of three fields of status
\* 301 or 302
ValidText ==
    /\ PlainHeader(Records)
    /\ \A i \in DOMAIN RowsOf(Records) : ValidRow(RowsOf(Records)[i])

\* the keys that the text gives: the urls of its rows
TextKeys == {RowsOf(Records)[i][1] : i \in DOMAIN RowsOf(Records)}

\* the pair that the text gives to the key: that of the last row of the key
TextPair(k) ==
    LET rows == RowsOf(Records)
        last == CHOOSE i \in DOMAIN rows :
                    rows[i][1] = k /\ \A j \in DOMAIN rows : j > i => rows[j][1] # k
    IN  [target |-> rows[last][2], status |-> StatusOf(rows[last])]

\* C24: the table of a load of a valid configuration text is given by the
\* text alone: whatever the invocation that loads it (with --check, with
\* --validate or to serve, with or without a static directory), the keys are
\* the urls of the rows of the text and each key has the destination and the
\* status of the last row of the text for it; so two loads of one text give
\* tables of the same keys and the same pairs.
C24_SameTextSameTable ==
    (pc # "main" /\ cli.import = "(none)" /\ ValidText) =>
        /\ loaded.ok
        /\ DOMAIN loaded.rules = TextKeys
        /\ \A k \in TextKeys : loaded.rules[k] = TextPair(k)

\* a load with --check and a static directory of a text of two rows of one
\* url: the table has the pair of the second row
C24_Witness ==
    /\ pc = "exited"
    /\ cli.check
    /\ cli.static_dir
    /\ ValidText
    /\ Len(RowsOf(Records)) = 2
    /\ Cardinality(TextKeys) = 1
    /\ loaded.rules[<<"/", "a">>] = [target |-> <<"T2">>, status |-> 302]

\* the first field of a row
UrlField(row) == FieldsOf(row)[1]

StartsWithSlash(t) == t # <<>> /\ t[1] = "/"

\* C25: every url that the importer writes starts with '/': the url of a
\* link whose slashtag starts with '/' is the slashtag as it is, and the url
\* of any other link is '/' and then the slashtag.
C25_UrlStartsWithSlash ==
    Written =>
        \A i \in DOMAIN WrittenRows :
            LET url == UrlField(WrittenRows[i])
                slashtag == KeptLinks[i].slashtag
            IN  /\ StartsWithSlash(url)
                /\ StartsWithSlash(slashtag) => url = slashtag
                /\ ~StartsWithSlash(slashtag) =>
                       /\ Len(url) = Len(slashtag) + 1
                       /\ SubSeq(url, 2, Len(url)) = slashtag

\* a written file with the urls of the slashtags "a", "/b", "" and "//c"
C25_Witness ==
    /\ Written
    /\ {<<"/", "a">>, <<"/", "b">>, <<"/">>, <<"/", "/", "c">>}
           \subseteq {UrlField(WrittenRows[i]) : i \in DOMAIN WrittenRows}
    /\ \E i \in DOMAIN WrittenRows : KeptLinks[i].slashtag = <<"a">>
    /\ \E i \in DOMAIN WrittenRows : KeptLinks[i].slashtag = <<>>

---------------------------------------------------------------------------
(* What the claims about the stored status speak of *)

\* C26: every entry of a table that load_redirect_rules returns has a stored
\* status of 301 or 302, and a request that matches a rule of a loaded table
\* is always answered, with 301, 302, 307 or 308 and never with 500.
C26_LoadedTableNever500 ==
    /\ loaded.ok => \A k \in DOMAIN loaded.rules : loaded.rules[k].status \in {301, 302}
    /\ (Served /\ trace.matched # <<>>) =>
           /\ ~response.panicked
           /\ response.status \in {301, 302, 307, 308}

---------------------------------------------------------------------------
(* What the claim about the two applications speaks of *)

\* what an application decided for a request: the answer of the rule it
\* picked (status and Location, or the panic of building it), or none
RedirectDecision(h) ==
    IF h.trace.matched = <<>> THEN {}
    ELSE {[rule |-> h.trace.matched, answer |-> h.response]}

\* the decision of the application built without a static directory
DecisionWithoutStatic(req) ==
    RedirectDecision(redirect_only_app(req, rules, cli.modern))

\* the decisions of the application built with a static directory, one for
\* each thing the static-file service may answer
DecisionsWithStatic(req) ==
    {RedirectDecision(static_app(req, fs, rules, cli.modern)) :
         fs \in StaticOutcomes(req.method)}

\* the request that was served, as both applications receive it
ServedRequest == [method |-> request.method, path |-> request.path]

\* C27: for every table, modern flag and request path, "/" and the paths made
\* only of slashes included, the application built with a static directory
\* and the one built without pick the same rule with the same status and
\* Location, or both pick none.
C27_SameDecision ==
    (Served /\ request.method = "GET") =>
        DecisionsWithStatic(ServedRequest) = {DecisionWithoutStatic(ServedRequest)}

---------------------------------------------------------------------------
(* create_app given a table that load_redirect_rules did not make *)

\* the u16 values stored with a rule: 301, 302 and others
StoredStatuses == {301, 302, 200, 303}

\* the keys of the tables handed to create_app
TableKeys == {<<"/", "a">>, <<"/", "a", "/">>, <<"/">>}

\* rules.insert(url, (target, status)) for some keys: the tables of the tests
InsertedTables ==
    UNION {[keys -> [target : {<<"T1">>}, status : StoredStatuses]] :
               keys \in SUBSET TableKeys}

\* create_app(rules, modern, .., static_dir) has returned the application
InitTables ==
    /\ file_content = <<>>
    /\ cli \in Options
    /\ pc = "serving"
    /\ loaded = NotLoaded
    /\ rules \in InsertedTables
    /\ request = NoRequest
    /\ response = NoResponse
    /\ trace = NoTrace
    /\ handlers = [h \in 1..MaxHandlers |-> Idle]
    /\ validation = NotValidated
    /\ exit = NoExit
    /\ importer = NotImporting

NextTables == ServeRedirects \/ ServeStatic

SpecTables == InitTables /\ [][NextTables]_vars

---------------------------------------------------------------------------
(* What the claim about a stored status other than 301 and 302 speaks of *)

\* the request was resolved to an entry whose stored status is neither 301
\* nor 302
MatchedOtherStatus ==
    /\ Served
    /\ trace.matched # <<>>
    /\ rules[trace.matched[1]].status \notin {301, 302}

\* C28: a request that matches a table entry whose stored status is neither
\* 301 nor 302 is answered with 500 Internal Server Error and no redirect,
\* and with a static directory it is still not handed to the static-file
\* service.
C28_OtherStatusIs500 ==
    MatchedOtherStatus =>
        /\ ~response.panicked
        /\ response.status = INTERNAL_SERVER_ERROR
        /\ Locations(response) = {}
        /\ trace.static_req = <<>>
        /\ trace.static_res = <<>>

\* /a/ is requested with a static directory of a table that stores 200 for
\* /a only: the trimmed lookup finds it and the answer is the 500
C28_Witness ==
    /\ MatchedOtherStatus
    /\ cli.static_dir
    /\ request.path = <<"/", "a", "/">>
    /\ trace.lookups = <<request.path, <<"/", "a">>>>
    /\ rules[<<"/", "a">>].status = 200
    /\ response.status = INTERNAL_SERVER_ERROR
    /\ trace.static_req = <<>>

---------------------------------------------------------------------------
(* What the claim about the output file of the importer speaks of *)

\* import_links has returned to main
Returned == importer.stage = "returned"

\* every request that was sent was answered with a page of links
EveryPageFetched ==
    /\ importer.requests # <<>>
    /\ Len(importer.pages) = Len(importer.requests)

\* the last request that was sent failed, or its answer was no page of links
PageFailed == Len(importer.pages) < Len(importer.requests)

\* the importer returned an error, main exits with 1, the file is untouched
ErrorAndUntouched ==
    /\ ~importer.result.ok
    /\ ~importer.result.written
    /\ exit = Exit(EXIT_FAILURE)

\* C29: the importer creates or writes the output file only after every page
\* was fetched and at least one link was fetched.  With an unsupported
\* provider, with no API key set (and then no request is sent), or with a
\* failed or non-success answer to any page it returns an error and leaves
\* the file untouched; with zero links it leaves the file untouched and
\* returns no error.
C29_OutputOnlyAfterFetch ==
    Returned =>
        /\ importer.result.written =>
               /\ EveryPageFetched
               /\ importer.all_links # <<>>
               /\ importer.result.ok
        /\ cli.import # "rebrandly" =>
               ErrorAndUntouched /\ importer.requests = <<>>
        /\ (cli.import = "rebrandly" /\ importer.requests = <<>>) =>
               /\ ErrorAndUntouched
               /\ importer.result.error = "environment variable not set"
        /\ PageFailed =>
               /\ ErrorAndUntouched
               /\ importer.result.error \in Replies \ {"links"}
        /\ (EveryPageFetched /\ importer.all_links = <<>>) =>
               /\ importer.result.ok
               /\ ~importer.result.written
               /\ exit = Exit(EXIT_SUCCESS)

\* two full pages were fetched, the third request failed: links are held,
\* nothing is written
C29_Witness ==
    /\ Returned
    /\ Len(importer.pages) = 2
    /\ Len(importer.requests) = 3
    /\ importer.all_links # <<>>
    /\ ErrorAndUntouched

===========================================================================
